---------------------------- MODULE Spec2Model ----------------------------
(***************************************************************************)
(* Model of src/ago_requests.py: helper functions that prepare a table and *)
(* publish it to ArcGIS Online through its REST interface.                 *)
(*                                                                         *)
(* Text is modelled as a sequence of one-character strings, so that        *)
(* str.replace is computed as Python computes it.  A table (DataFrame) is  *)
(* a record of a column-name sequence and a sequence of rows, each row a   *)
(* sequence of cell values aligned with the columns by position.           *)
(*                                                                         *)
(* A response body is a JSON object whose keys may be present or absent;   *)
(* the values of the keys the code reads have the types the REST interface *)
(* gives them.  The platform is modelled by what the requests do to the    *)
(* account's folder list: a listing reads it, a createFolder appends to it.*)
(*                                                                         *)
(* The module holds one specification per group of functions:              *)
(*   SpecCleanName  prepare_df_for_ago.clean_name on one column name       *)
(*   SpecSanitize   prepare_df_for_ago on a whole table                    *)
(*   SpecAccount    get_ago_token and get_ago_folderID, two callers        *)
(*   SpecProvision  create_feature_service, then add_layer_to_service      *)
(*   SpecUpload     add_features                                           *)
(* The variables of the groups a specification leaves out stay parked.     *)
(***************************************************************************)
EXTENDS Integers, Sequences, FiniteSets, TLC

VARIABLES
    col,        \* clean_name: the column name passed in
    cleaned,    \* clean_name: the name returned
    cn_pc,      \* clean_name: "ready" | "done"
    df,         \* prepare_df_for_ago: the caller's table
    df_ago,     \* prepare_df_for_ago: the table returned (NoTable before/without)
    san_pc,     \* prepare_df_for_ago: "ready" | "returned" | "raised"
    san_exc,    \* prepare_df_for_ago: the exception raised ("none" without)
    prov_pc,    \* provisioning run: "start" | "service" | "layer" | "raised"
    svc_resp,   \* create_feature_service: the outcome of its request
    svc_ret,    \* create_feature_service: the pair returned (NoReturn without)
    lyr_resp,   \* add_layer_to_service: the outcome of its request
    lyr_ret,    \* add_layer_to_service: the value returned (NoReturn without)
    prov_exc,   \* provisioning run: the exception raised (NoExc without)
    prov_posts, \* provisioning run: the endpoints posted to, in order
    up_rows,    \* add_features: the rows of df, in table order
    up_pc,      \* add_features: "loop" | "returned" | "raised"
    up_i,       \* add_features: the number of rows the loop has been through
    features,   \* add_features: the batch built so far
    up_log,     \* add_features: the log records written, in order
    up_posts,   \* add_features: the payloads posted to /0/addFeatures, in order
    up_resp,    \* add_features: the outcome of its request (NoResp without)
    up_ret,     \* add_features: the list returned (NoReturn without)
    up_exc,     \* add_features: the exception raised (NoExc without)
    folders,    \* the account's folders as the platform lists them, oldest first
    token,      \* per caller: the token get_ago_token returned ("none" before)
    f_pc,       \* per caller: "idle", or "create" between the two requests of
                \*   a get_ago_folderID call
    f_title,    \* per caller: the folder_name of the call in progress
    f_listing,  \* per caller: what the listing of the call in progress gave
    f_overlap,  \* per caller: whether the call in progress ran beside another
    ncalls,     \* the number of get_ago_folderID calls started so far
    prev,       \* the get_ago_folderID call completed before the last one
    last,       \* the get_ago_folderID call completed last
    tok_last,   \* the get_ago_token call completed last
    raced       \* whether two get_ago_folderID calls for one title ever ran
                \*   beside each other

cnVars  == <<col, cleaned, cn_pc>>
sanVars == <<df, df_ago, san_pc, san_exc>>
provVars == <<prov_pc, svc_resp, svc_ret, lyr_resp, lyr_ret, prov_exc, prov_posts>>
upVars  == <<up_rows, up_pc, up_i, features, up_log, up_posts, up_resp, up_ret, up_exc>>
acctVars == <<folders, token, f_pc, f_title, f_listing, f_overlap, ncalls, prev, last,
              tok_last, raced>>
vars    == <<cnVars, sanVars, provVars, upVars, acctVars>>

---------------------------------------------------------------------------
(* Bounds of the model *)

MaxNameLen == 3
MaxRows == 2
MaxUrlLen == 6
MaxCalls == 4

---------------------------------------------------------------------------
(* Text helpers *)

\* All sequences over S of length 0..n.
SeqsUpTo(S, n) == UNION {[1..k -> S] : k \in 0..n}

\* Python str.replace(old, new) for a non-empty old: occurrences are found left
\* to right and do not overlap; the text after a match is scanned from its end.
RECURSIVE Replace(_, _, _)
Replace(s, old, new) ==
    IF Len(s) < Len(old) THEN s
    ELSE IF SubSeq(s, 1, Len(old)) = old
         THEN new \o Replace(SubSeq(s, Len(old) + 1, Len(s)), old, new)
         ELSE <<Head(s)>> \o Replace(Tail(s), old, new)

---------------------------------------------------------------------------
(* prepare_df_for_ago.clean_name *)

\* A variant of the list below that misses the apostrophe.
SpecialCharsNoQuote == <<"(", ")", "#", "-", " ">>

\* The list the loop of clean_name runs over, in its order.
SpecialChars == <<"(", ")", "#", "-", " ", "'">>

\* for char in [...]: name = name.replace(char, '')
RECURSIVE CleanFrom(_, _)
CleanFrom(name, i) ==
    IF i > Len(SpecialChars) THEN name
    ELSE CleanFrom(Replace(name, <<SpecialChars[i]>>, <<>>), i + 1)

clean_name(name) == CleanFrom(name, 1)

\* The characters column names are drawn from: the six special ones and two
\* ordinary ones.
NameAlphabet == {"(", ")", "#", "-", " ", "'", "a", "_"}

Names == SeqsUpTo(NameAlphabet, MaxNameLen)

CleanNameInit ==
    /\ col \in Names
    /\ cleaned = <<>>
    /\ cn_pc = "ready"

CleanNameParked ==
    /\ col = <<>>
    /\ cleaned = <<>>
    /\ cn_pc = "parked"

\* df_ago.columns = [clean_name(col) for col in df_ago.columns], one name.
CleanName ==
    /\ cn_pc = "ready"
    /\ cleaned' = clean_name(col)
    /\ cn_pc' = "done"
    /\ UNCHANGED <<col, sanVars, provVars, upVars, acctVars>>

---------------------------------------------------------------------------
(* prepare_df_for_ago *)

\* 'LatLongSource', the column dropna is given.
LatLongSource == <<"L","a","t","L","o","n","g","S","o","u","r","c","e">>

NaN == "NaN"
NoTable == [columns |-> <<>>, rows |-> <<>>, none |-> TRUE]
Table(c, r) == [columns |-> c, rows |-> r, none |-> FALSE]

\* Positions of the columns with the given label (Index.get_indexer_for).
IndexerFor(columns, label) == {i \in 1..Len(columns) : columns[i] = label}

\* A variant of the mask below that ignores the subset: a row is kept only
\* when none of its cells is null.
NotNaAnywhere(row, indices) == \A i \in 1..Len(row) : row[i] # NaN

\* notna(agg_obj).all(axis=1) over the selected columns.
NotNaAll(row, indices) == \A i \in indices : row[i] # NaN

\* DataFrame.dropna(subset=[label]): raises KeyError when no column has the
\* label, else keeps the rows the mask marks.
dropna(t, label) ==
    LET indices == IndexerFor(t.columns, label)
        keep(row) == NotNaAll(row, indices)
    IN  IF indices = {}
        THEN [exc |-> "KeyError", table |-> NoTable]
        ELSE [exc |-> "none", table |-> Table(t.columns, SelectSeq(t.rows, keep))]

RenameColumns(t) ==
    Table([i \in 1..Len(t.columns) |-> clean_name(t.columns[i])], t.rows)

\* Column names of the input tables: the provenance column as the code spells
\* it, two spellings that clean to it, and two unrelated names.
Lat_Long_Source == <<"L","a","t"," ","L","o","n","g"," ","S","o","u","r","c","e">>
LatLongSourceHash == <<"L","a","t","L","o","n","g","S","o","u","r","c","e","#">>
ColumnNames ==
    {LatLongSource, Lat_Long_Source, LatLongSourceHash,
     <<"N","a","m","e">>, <<"L","a","t","(","d","d",")">>}

Cells == {NaN, "x"}

ColumnLists == UNION {[1..k -> ColumnNames] : k \in 1..2}

Tables ==
    UNION {{Table(c, r) : r \in SeqsUpTo([1..Len(c) -> Cells], MaxRows)} :
           c \in ColumnLists}

SanitizeInit ==
    /\ df \in Tables
    /\ df_ago = NoTable
    /\ san_pc = "ready"
    /\ san_exc = "none"

SanitizeParked ==
    /\ df = NoTable
    /\ df_ago = NoTable
    /\ san_pc = "parked"
    /\ san_exc = "none"

\* prepare_df_for_ago(df): copy, rename the columns, drop the rows, return.
PrepareDfForAgo ==
    /\ san_pc = "ready"
    /\ LET renamed == RenameColumns(df)
           dropped == dropna(renamed, LatLongSource)
       IN  IF dropped.exc # "none"
           THEN /\ san_pc' = "raised"
                /\ san_exc' = dropped.exc
                /\ df_ago' = NoTable
           ELSE /\ san_pc' = "returned"
                /\ san_exc' = "none"
                /\ df_ago' = dropped.table
    /\ UNCHANGED <<df, cnVars, provVars, upVars, acctVars>>

---------------------------------------------------------------------------
(* JSON bodies and request outcomes *)

\* A JSON object is a function from its keys to its values.  A value is text
\* (a sequence); Absent marks a key the object does not carry.
Absent == <<"~absent">>
Opt(k, v) == IF v = Absent THEN <<>> ELSE k :> v
HasKey(json, k) == k \in DOMAIN json

\* The outcome of requests.post(...) followed by response.json() where the
\* code makes no status check: the connection fails, the body is not JSON, or
\* the body parses to an object (whatever the HTTP status).
ConnectionFailed == [kind |-> "ConnectionError", status |-> "none", body |-> <<>>]
NotJson(st) == [kind |-> "JSONDecodeError", status |-> st, body |-> <<>>]
Json(st, b) == [kind |-> "json", status |-> st, body |-> b]
Statuses == {"2xx", "5xx"}

NoReturn == [returned |-> FALSE]
NoExc == [type |-> "none"]
NoResp == [kind |-> "none"]

\* raise Exception(f"<prefix>{response_json}"): the message embeds the parsed
\* response.
ExceptionWith(prefix, response_json) ==
    [type |-> "Exception", prefix |-> prefix, embedded |-> response_json]
Raised(type) == [type |-> type]

---------------------------------------------------------------------------
(* create_feature_service *)

\* URL text is a sequence of "/" and of path segments.
Slash == "/"
RestPath == <<Slash, "rest", Slash>>
RestAdminPath == <<Slash, "rest", Slash, "admin", Slash>>

\* A variant of the substitution below that rewrites the first '/rest/' only.
RECURSIVE AdminUrlFirstOnly(_)
AdminUrlFirstOnly(service_url) ==
    IF Len(service_url) < Len(RestPath) THEN service_url
    ELSE IF SubSeq(service_url, 1, Len(RestPath)) = RestPath
         THEN RestAdminPath \o SubSeq(service_url, Len(RestPath) + 1, Len(service_url))
         ELSE <<Head(service_url)>> \o AdminUrlFirstOnly(Tail(service_url))

\* admin_url = service_url.replace('/rest/', '/rest/admin/')
AdminUrl(service_url) == Replace(service_url, RestPath, RestAdminPath)

\* JSON null as the value of encodedServiceURL: None has no replace().
NullValue == <<"~null">>

UrlTokens == {Slash, "rest", "svc"}
Urls == SeqsUpTo(UrlTokens, MaxUrlLen)

SvcBodies ==
    {Opt("serviceItemId", i) @@ Opt("encodedServiceURL", u) @@ Opt("error", e) :
        i \in {Absent, <<"item1">>},
        u \in {Absent, NullValue} \cup Urls,
        e \in {Absent, <<"400">>}}

SvcOutcomes ==
    {ConnectionFailed} \cup {NotJson(st) : st \in Statuses}
        \cup {Json(st, b) : st \in Statuses, b \in SvcBodies}

\* The result of create_feature_service on the outcome of its request:
\* what it returns and what it raises.
ServiceResult(resp) ==
    IF resp.kind # "json"
    THEN [ret |-> NoReturn, exc |-> Raised(resp.kind)]
    ELSE LET response_json == resp.body IN
         IF HasKey(response_json, "serviceItemId")
                /\ HasKey(response_json, "encodedServiceURL")
         THEN LET service_id == response_json["serviceItemId"]
                  service_url == response_json["encodedServiceURL"]
              IN  IF service_url = NullValue
                  THEN [ret |-> NoReturn, exc |-> Raised("AttributeError")]
                  ELSE [ret |-> [returned |-> TRUE, service_id |-> service_id,
                                 admin_url |-> AdminUrl(service_url)],
                        exc |-> NoExc]
         ELSE [ret |-> NoReturn,
               exc |-> ExceptionWith("Error creating feature service: ", response_json)]

CreateFeatureService ==
    /\ prov_pc = "start"
    /\ \E resp \in SvcOutcomes :
          LET r == ServiceResult(resp) IN
          /\ svc_resp' = resp
          /\ svc_ret' = r.ret
          /\ prov_exc' = r.exc
          /\ prov_pc' = IF r.ret.returned THEN "service" ELSE "raised"
    /\ prov_posts' = Append(prov_posts, <<"createService">>)
    /\ UNCHANGED <<lyr_resp, lyr_ret, cnVars, sanVars, upVars, acctVars>>

---------------------------------------------------------------------------
(* add_layer_to_service *)

\* JSON values of the 'success' key, as their JSON text.
SuccessValues == {"true", "false", "0", "1", "null", "\"\"", "\"false\"", "[]", "{}"}

\* Python truth value of a parsed JSON value.
Truthy(v) == v \notin {"false", "0", "null", "\"\"", "[]", "{}"}

LyrBodies ==
    {Opt("success", <<v>>) @@ Opt("error", e) :
        v \in SuccessValues, e \in {Absent, <<"400">>}}
    \cup {Opt("error", e) : e \in {Absent, <<"400">>}}

LyrOutcomes ==
    {ConnectionFailed} \cup {NotJson(st) : st \in Statuses}
        \cup {Json(st, b) : st \in Statuses, b \in LyrBodies}

\* A variant of the test below that asks only whether the key is there.
SuccessKeyPresent(response_json) == HasKey(response_json, "success")

\* 'success' in response_json and response_json['success']
SuccessFlag(response_json) ==
    HasKey(response_json, "success") /\ Truthy(response_json["success"][1])

LayerResult(resp) ==
    IF resp.kind # "json"
    THEN [ret |-> NoReturn, exc |-> Raised(resp.kind)]
    ELSE LET response_json == resp.body IN
         IF SuccessFlag(response_json)
         THEN [ret |-> [returned |-> TRUE, value |-> TRUE], exc |-> NoExc]
         ELSE [ret |-> NoReturn,
               exc |-> ExceptionWith("Error adding layer to feature service: ",
                                     response_json)]

AddLayerToService ==
    /\ prov_pc = "service"
    /\ \E resp \in LyrOutcomes :
          LET r == LayerResult(resp) IN
          /\ lyr_resp' = resp
          /\ lyr_ret' = r.ret
          /\ prov_exc' = r.exc
          /\ prov_pc' = IF r.ret.returned THEN "layer" ELSE "raised"
    /\ prov_posts' = Append(prov_posts, svc_ret.admin_url \o <<Slash, "addToDefinition">>)
    /\ UNCHANGED <<svc_resp, svc_ret, cnVars, sanVars, upVars, acctVars>>

ProvisionInit ==
    /\ prov_pc = "start"
    /\ svc_resp = NoResp
    /\ svc_ret = NoReturn
    /\ lyr_resp = NoResp
    /\ lyr_ret = NoReturn
    /\ prov_exc = NoExc
    /\ prov_posts = <<>>

ProvisionParked ==
    /\ prov_pc = "parked"
    /\ svc_resp = NoResp
    /\ svc_ret = NoReturn
    /\ lyr_resp = NoResp
    /\ lyr_ret = NoReturn
    /\ prov_exc = NoExc
    /\ prov_posts = <<>>

---------------------------------------------------------------------------
(* add_features *)

\* A row is told by what its cells do to the loop body.  attr is the kind of
\* its attribute cells:
\*   "plain"     text or a number, copied as it is
\*   "datetime"  a datetime, written with isoformat()
\*   "null"      NaN/None/NaT, mapped to None
\*   "arraylike" a list or array cell: pd.isna(value) is an array and its
\*               truth test raises ValueError
\*   "object"    a value json.dumps cannot encode (a numpy integer, a Point)
\* coord is the kind of its longitude/latitude cells: "number", or "text"
\* that float() refuses with ValueError.
AttrKinds == {"plain", "datetime", "null", "arraylike", "object"}
CoordKinds == {"number", "text"}
UploadRows == [attr : AttrKinds, coord : CoordKinds]

\* The attributes mapping the loop builds for a row.
Attributes(row) ==
    CASE row.attr = "datetime" -> "isoformat"
      [] row.attr = "null" -> "None"
      [] OTHER -> row.attr

\* A variant of the test below in which the float() calls are not covered by
\* the try block's outcome: only the attribute loop can fail a row.
RowExceptionAttributesOnly(row) ==
    IF row.attr = "arraylike" THEN "ValueError" ELSE "none"

\* The exception the try block of one row ends with ("none": the feature is
\* appended).
RowException(row) ==
    IF row.attr = "arraylike" THEN "ValueError"
    ELSE IF row.coord = "text" THEN "ValueError"
    ELSE "none"

Feature(index, row) ==
    [index |-> index, geometry |-> "point", attributes |-> Attributes(row)]

\* One pass of `for index, row in df.iterrows()`: the try block and its
\* except clause.
ProcessRow ==
    /\ up_pc = "loop"
    /\ up_i < Len(up_rows)
    /\ LET index == up_i + 1
           row == up_rows[index]
       IN  IF RowException(row) = "none"
           THEN /\ features' = Append(features, Feature(index, row))
                /\ up_log' = up_log
           ELSE /\ features' = features
                /\ up_log' = Append(up_log,
                        [level |-> "error", what |-> "Error processing row",
                         detail |-> index])
    /\ up_i' = up_i + 1
    /\ UNCHANGED <<up_rows, up_pc, up_posts, up_resp, up_ret, up_exc>>
    /\ UNCHANGED <<cnVars, sanVars, provVars, acctVars>>

\* A variant of the test below under which the batch is always posted.
NeverEmpty(batch) == FALSE

\* if not features:
IsEmptyBatch(batch) == batch = <<>>

\* json.dumps(features) raises TypeError on a value it cannot encode.
Encodable(batch) == \A j \in 1..Len(batch) : batch[j].attributes # "object"

\* The entries of addResults: success true, success false, no success key.
ResultEntries == {"success", "failure", "nokey"}

\* The outcome of requests.post(...), raise_for_status() and response.json()
\* in the try block of add_features.
UploadOutcomes ==
    {[kind |-> "ConnectionError"], [kind |-> "HTTPError"], [kind |-> "JSONDecodeError"]}
    \cup {[kind |-> "json", body |-> Opt("addResults", r) @@ Opt("error", e)] :
            r \in {Absent} \cup SeqsUpTo(ResultEntries, MaxRows),
            e \in {Absent, <<"400">>}}

\* The exceptions that are a requests.exceptions.RequestException.
RequestExceptions == {"ConnectionError", "HTTPError", "JSONDecodeError"}

\* sum(1 for result in addResults if result.get('success', False))
RECURSIVE SuccessfulAdds(_)
SuccessfulAdds(results) ==
    IF results = <<>> THEN 0
    ELSE (IF Head(results) = "success" THEN 1 ELSE 0) + SuccessfulAdds(Tail(results))

IsSuccess(entry) == entry = "success"

\* A variant of the response handling below that hands back only the
\* entries that report success.
UploadResultSuccessesOnly(resp, batch) ==
    IF resp.kind \in RequestExceptions
    THEN [ret |-> <<>>,
          log |-> [level |-> "error", what |-> "Request failed", detail |-> resp.kind]]
    ELSE IF HasKey(resp.body, "addResults")
    THEN [ret |-> SelectSeq(resp.body["addResults"], IsSuccess),
          log |-> [level |-> "info", what |-> "features added successfully",
                   detail |-> <<SuccessfulAdds(resp.body["addResults"]), Len(batch)>>]]
    ELSE [ret |-> <<>>,
          log |-> [level |-> "error", what |-> "Error adding features", detail |-> resp.body]]

\* The try block after the request and its except clause: the list returned
\* and the record logged.
UploadResult(resp, batch) ==
    IF resp.kind \in RequestExceptions
    THEN [ret |-> <<>>,
          log |-> [level |-> "error", what |-> "Request failed", detail |-> resp.kind]]
    ELSE IF HasKey(resp.body, "addResults")
    THEN [ret |-> resp.body["addResults"],
          log |-> [level |-> "info", what |-> "features added successfully",
                   detail |-> <<SuccessfulAdds(resp.body["addResults"]), Len(batch)>>]]
    ELSE [ret |-> <<>>,
          log |-> [level |-> "error", what |-> "Error adding features", detail |-> resp.body]]

\* The rest of add_features once the loop is over: the empty-batch return,
\* the encoding of the payload, the request and the handling of its outcome.
SubmitBatch ==
    /\ up_pc = "loop"
    /\ up_i = Len(up_rows)
    /\ IF IsEmptyBatch(features)
       THEN /\ up_log' = Append(up_log,
                    [level |-> "error", what |-> "No valid features to add",
                     detail |-> 0])
            /\ up_ret' = [returned |-> TRUE, value |-> <<>>]
            /\ up_pc' = "returned"
            /\ UNCHANGED <<up_posts, up_resp, up_exc>>
       ELSE IF ~Encodable(features)
       THEN /\ up_exc' = Raised("TypeError")
            /\ up_pc' = "raised"
            /\ UNCHANGED <<up_log, up_posts, up_resp, up_ret>>
       ELSE \E resp \in UploadOutcomes :
              LET r == UploadResult(resp, features) IN
              /\ up_posts' = Append(up_posts, features)
              /\ up_resp' = resp
              /\ up_log' = Append(up_log, r.log)
              /\ up_ret' = [returned |-> TRUE, value |-> r.ret]
              /\ up_pc' = "returned"
              /\ UNCHANGED up_exc
    /\ UNCHANGED <<up_rows, up_i, features>>
    /\ UNCHANGED <<cnVars, sanVars, provVars, acctVars>>

UploadInit ==
    /\ up_rows \in SeqsUpTo(UploadRows, MaxRows)
    /\ up_pc = "loop"
    /\ up_i = 0
    /\ features = <<>>
    /\ up_log = <<>>
    /\ up_posts = <<>>
    /\ up_resp = NoResp
    /\ up_ret = NoReturn
    /\ up_exc = NoExc

UploadParked ==
    /\ up_rows = <<>>
    /\ up_pc = "parked"
    /\ up_i = 0
    /\ features = <<>>
    /\ up_log = <<>>
    /\ up_posts = <<>>
    /\ up_resp = NoResp
    /\ up_ret = NoReturn
    /\ up_exc = NoExc

---------------------------------------------------------------------------
(* get_ago_token and get_ago_folderID *)

\* The programs that call the functions against one account.
Callers == {1, 2}
Titles == {"A", "B"}

\* What raise_for_status() and the transport make of a request in a try
\* block: the response is good, or a RequestException is raised.
NoCall == [kind |-> "none"]
ErrorLog(what, e) == [level |-> "error", what |-> what, e |-> e]
InfoLog(what) == [level |-> "info", what |-> what]

\* The outcomes of the token request: a token, a JSON body without one, or a
\* failure.
TokenOutcomes ==
    {[exc |-> "none", token |-> "token"], [exc |-> "none", token |-> "None"],
     [exc |-> "ConnectionError", token |-> "None"],
     [exc |-> "HTTPError", token |-> "None"]}

\* The try block of get_ago_token and its except clause.
TokenResult(outcome) ==
    IF outcome.exc = "none"
    THEN [returned |-> TRUE, ret |-> outcome.token, exc |-> "none",
          log |-> InfoLog("successfully obtained AGO access token")]
    ELSE [returned |-> FALSE, ret |-> "None", exc |-> outcome.exc,
          log |-> ErrorLog("failed to obtain access token", outcome.exc)]

\* get_ago_token(TOKEN_URL, HOST, USERNAME, PASSWORD), called by a caller
\* that holds no token yet.
GetAgoToken(p) ==
    /\ f_pc[p] = "idle"
    /\ token[p] = "none"
    /\ \E outcome \in TokenOutcomes :
          LET r == TokenResult(outcome) IN
          /\ tok_last' = [kind |-> "token", caller |-> p, outcome |-> outcome,
                          returned |-> r.returned, ret |-> r.ret, exc |-> r.exc,
                          log |-> r.log, posts |-> <<"generateToken">>]
          /\ token' = IF r.returned /\ r.ret # "None"
                       THEN [token EXCEPT ![p] = r.ret] ELSE token
    /\ UNCHANGED <<folders, f_pc, f_title, f_listing, f_overlap, ncalls, prev, last,
                   raced>>
    /\ UNCHANGED <<cnVars, sanVars, provVars, upVars>>

\* A variant of the search below that finds nothing.
FirstMatchNever(listed, folder_name) == 0

\* A variant of the search below that starts at the second folder.
FirstMatchFromSecond(listed, folder_name) ==
    LET hits == {i \in 2..Len(listed) : listed[i].title = folder_name}
    IN  IF hits = {} THEN 0
        ELSE listed[CHOOSE i \in hits : \A j \in hits : i <= j].id

\* for folder in folders: if folder['title'] == folder_name: return
\* folder['id'] -- the id of the first folder with the title, 0 for none.
FirstMatch(listed, folder_name) ==
    LET hits == {i \in 1..Len(listed) : listed[i].title = folder_name}
    IN  IF hits = {} THEN 0
        ELSE listed[CHOOSE i \in hits : \A j \in hits : i <= j].id

\* The outcomes of the listing request.
ListOutcomes == {"none", "ConnectionError", "HTTPError"}

\* A variant of the step below that takes a failed listing for an empty one
\* and goes on to create the folder.
AfterListingIgnoringFailure(exc, listed, folder_name) ==
    IF exc # "none" THEN "create"
    ELSE IF FirstMatch(listed, folder_name) # 0 THEN "return"
    ELSE "create"

\* Where get_ago_folderID goes after its first request: it raises, returns
\* the id found, or goes on to the create request.
AfterListing(exc, listed, folder_name) ==
    IF exc # "none" THEN "raise"
    ELSE IF FirstMatch(listed, folder_name) # 0 THEN "return"
    ELSE "create"

\* The record of a completed get_ago_folderID call: what it returned or
\* raised, what it logged, the endpoints it posted to with the outcome of each,
\* whether the listing held the title, and whether it ran with no other call
\* beside it.
FolderCall(p, title, returned, ret, exc, log, posts, outcomes, had, serial) ==
    [kind |-> "folder", caller |-> p, title |-> title, returned |-> returned,
     ret |-> ret, exc |-> exc, log |-> log, posts |-> posts,
     outcomes |-> outcomes, had |-> had, serial |-> serial]

NoListing == [exc |-> "none", had |-> FALSE]

HasTitle(listed, title) == \E i \in 1..Len(listed) : listed[i].title = title

InFlight == {q \in Callers : f_pc[q] = "create"}

\* The first request of get_ago_folderID(token, username, folder_name) and
\* the loop over the folders listed.
ListFolders(p) ==
    /\ f_pc[p] = "idle"
    /\ token[p] # "none"
    /\ ncalls < MaxCalls
    /\ ncalls' = ncalls + 1
    /\ \E folder_name \in Titles, exc \in ListOutcomes :
          LET listed == folders
              go == AfterListing(exc, listed, folder_name)
              beside == InFlight # {}
              done(returned, ret, log) ==
                  /\ last' = FolderCall(p, folder_name, returned, ret, exc, log,
                                        <<"folders">>, <<exc>>,
                                        HasTitle(listed, folder_name), ~beside)
                  /\ prev' = last
                  /\ UNCHANGED <<f_pc, f_title, f_listing>>
                  /\ f_overlap' = [q \in Callers |->
                                      IF q \in InFlight THEN TRUE ELSE f_overlap[q]]
          IN  /\ raced' = (raced \/ \E q \in InFlight : f_title[q] = folder_name)
              /\ CASE go = "raise" ->
                        done(FALSE, 0, ErrorLog("failed to create or get folder", exc))
                   [] go = "return" ->
                        done(TRUE, FirstMatch(listed, folder_name),
                             InfoLog("folder already exists"))
                   [] go = "create" ->
                        /\ f_pc' = [f_pc EXCEPT ![p] = "create"]
                        /\ f_title' = [f_title EXCEPT ![p] = folder_name]
                        /\ f_listing' = [f_listing EXCEPT ![p] =
                                [exc |-> exc, had |-> HasTitle(listed, folder_name)]]
                        /\ f_overlap' = [q \in Callers |->
                                IF q = p THEN beside
                                ELSE IF q \in InFlight THEN TRUE ELSE f_overlap[q]]
                        /\ UNCHANGED <<prev, last>>
    /\ UNCHANGED <<folders, token, tok_last>>
    /\ UNCHANGED <<cnVars, sanVars, provVars, upVars>>

\* The outcomes of the create request: the folder is created and its id comes
\* back; the request fails and nothing is created; or the folder is created
\* and the response is lost on its way back.
CreateOutcomes ==
    {[exc |-> "none", created |-> TRUE],
     [exc |-> "ConnectionError", created |-> FALSE],
     [exc |-> "HTTPError", created |-> FALSE],
     [exc |-> "ConnectionError", created |-> TRUE]}

\* The id the platform gives a new folder.
NewId == Len(folders) + 1

\* The second request of get_ago_folderID: createFolder, and the return of
\* the new id or the except clause.
CreateFolder(p) ==
    /\ f_pc[p] = "create"
    /\ \E outcome \in CreateOutcomes :
          /\ folders' = IF outcome.created
                         THEN Append(folders, [title |-> f_title[p], id |-> NewId])
                         ELSE folders
          /\ last' = IF outcome.exc = "none"
                      THEN FolderCall(p, f_title[p], TRUE, NewId, "none",
                                      InfoLog("folder created successfully"),
                                      <<"folders", "createFolder">>,
                                      <<f_listing[p].exc, outcome.exc>>,
                                      f_listing[p].had, ~f_overlap[p])
                      ELSE FolderCall(p, f_title[p], FALSE, 0, outcome.exc,
                                      ErrorLog("failed to create or get folder",
                                               outcome.exc),
                                      <<"folders", "createFolder">>,
                                      <<f_listing[p].exc, outcome.exc>>,
                                      f_listing[p].had, ~f_overlap[p])
    /\ prev' = last
    /\ f_pc' = [f_pc EXCEPT ![p] = "idle"]
    /\ f_title' = [f_title EXCEPT ![p] = "none"]
    /\ f_listing' = [f_listing EXCEPT ![p] = NoListing]
    /\ f_overlap' = [f_overlap EXCEPT ![p] = FALSE]
    /\ UNCHANGED <<token, ncalls, tok_last, raced>>
    /\ UNCHANGED <<cnVars, sanVars, provVars, upVars>>

\* The folders of the account before the first call: no two of a title.
InitialFolders ==
    {<<>>,
     <<[title |-> "B", id |-> 1]>>,
     <<[title |-> "A", id |-> 1]>>,
     <<[title |-> "B", id |-> 1], [title |-> "A", id |-> 2]>>}

AccountInit ==
    /\ folders \in InitialFolders
    /\ token = [p \in Callers |-> "none"]
    /\ f_pc = [p \in Callers |-> "idle"]
    /\ f_title = [p \in Callers |-> "none"]
    /\ f_listing = [p \in Callers |-> NoListing]
    /\ f_overlap = [p \in Callers |-> FALSE]
    /\ ncalls = 0
    /\ prev = NoCall
    /\ last = NoCall
    /\ tok_last = NoCall
    /\ raced = FALSE

AccountParked ==
    /\ folders = <<>>
    /\ token = [p \in Callers |-> "none"]
    /\ f_pc = [p \in Callers |-> "parked"]
    /\ f_title = [p \in Callers |-> "none"]
    /\ f_listing = [p \in Callers |-> NoListing]
    /\ f_overlap = [p \in Callers |-> FALSE]
    /\ ncalls = 0
    /\ prev = NoCall
    /\ last = NoCall
    /\ tok_last = NoCall
    /\ raced = FALSE

---------------------------------------------------------------------------
(* Properties of the Schema Sanitizer *)

\* The characters the sanitizer is to remove.
Forbidden == {"(", ")", "#", "-", "'", " "}
IsKept(c) == c \notin Forbidden
Deleted(name) == SelectSeq(name, IsKept)

\* C8: the name clean_name returns holds none of the characters ( ) # - ' and
\* space, and is the input name with exactly those characters deleted, the
\* others kept in their order.
C8_CleanNameDeletes ==
    cn_pc = "done" =>
        /\ \A i \in 1..Len(cleaned) : cleaned[i] \notin Forbidden
        /\ cleaned = Deleted(col)

\* C8 witness: a name mixing special and ordinary characters has been cleaned
\* and came out shorter but not empty.
C8_Witness ==
    /\ cn_pc = "done"
    /\ \E i \in 1..Len(col) : col[i] = "'"
    /\ \E i \in 1..Len(col) : col[i] \in Forbidden \ {"'"}
    /\ cleaned # <<>>
    /\ Len(cleaned) < Len(col)

\* The columns of the input table that are named LatLongSource once cleaned.
ProvenanceColumns ==
    {i \in 1..Len(df.columns) : Deleted(df.columns[i]) = LatLongSource}

\* The input rows that are null in at least one of those columns.
NullProvenanceRows ==
    {k \in 1..Len(df.rows) : \E i \in ProvenanceColumns : df.rows[k][i] = NaN}

RECURSIVE RowsExcept(_, _, _)
RowsExcept(rows, k, drop) ==
    IF k > Len(rows) THEN <<>>
    ELSE (IF k \in drop THEN <<>> ELSE <<rows[k]>>) \o RowsExcept(rows, k + 1, drop)

\* C9 (as amended): a table with at least one column that cleans to
\* LatLongSource comes back with exactly the input rows, in order, that are
\* non-null in every such column, so the row count is the input count minus
\* the rows null there; a table with no such column raises KeyError and no
\* table is returned.
C9_DropsNullProvenance ==
    san_pc \in {"returned", "raised"} =>
        IF ProvenanceColumns = {}
        THEN san_pc = "raised" /\ san_exc = "KeyError" /\ df_ago = NoTable
        ELSE /\ san_pc = "returned"
             /\ df_ago.rows = RowsExcept(df.rows, 1, NullProvenanceRows)
             /\ Len(df_ago.rows) = Len(df.rows) - Cardinality(NullProvenanceRows)

\* C9 witness: a table with one provenance column and another column came
\* back with a row dropped and a row kept, the kept row null elsewhere.
C9_Witness ==
    /\ san_pc = "returned"
    /\ Cardinality(ProvenanceColumns) = 1
    /\ Len(df.columns) = 2
    /\ Len(df.rows) = 2
    /\ Len(df_ago.rows) = 1
    /\ \E i \in 1..2 : df_ago.rows[1][i] = NaN

\* The provenance field of a row as the claim reads it: the cell of the
\* LatLongSource column, absent (null) when the table has no such column.
Provenance(row) ==
    IF ProvenanceColumns = {} THEN NaN
    ELSE row[CHOOSE i \in ProvenanceColumns : \A j \in ProvenanceColumns : i <= j]
HasProvenance(row) == Provenance(row) # NaN

\* C9 (as stated): for every input table the call returns the rows whose
\* provenance field is non-null and no other.
C9_Original ==
    san_pc \in {"returned", "raised"} =>
        /\ san_pc = "returned"
        /\ df_ago.rows = SelectSeq(df.rows, HasProvenance)

---------------------------------------------------------------------------
(* Properties of the Service Provisioner and the Layer Definer *)

\* Whether '/rest/' stands at position i of url.
IsRestAt(url, i) ==
    /\ i + 2 <= Len(url)
    /\ url[i] = Slash /\ url[i + 1] = "rest" /\ url[i + 2] = Slash

\* Whether a left-to-right scan for '/rest/' takes the occurrence at i: the one
\* two places before it, which shares its slash, must not have been taken.
RECURSIVE IsTakenAt(_, _)
IsTakenAt(url, i) ==
    IsRestAt(url, i) /\ ~(i >= 3 /\ IsTakenAt(url, i - 2))

\* url with each taken occurrence of '/rest/' written as '/rest/admin/',
\* built position by position from i on.
RECURSIVE Substituted(_, _)
Substituted(url, i) ==
    IF i > Len(url) THEN <<>>
    ELSE (IF IsTakenAt(url, i) THEN RestAdminPath
          ELSE IF (i >= 2 /\ IsTakenAt(url, i - 1)) \/ (i >= 3 /\ IsTakenAt(url, i - 2))
               THEN <<>>
               ELSE <<url[i]>>)
         \o Substituted(url, i + 1)

ServiceCalled == prov_pc \in {"service", "layer", "raised"}
LayerCalled == lyr_resp # NoResp

\* C4: when the response JSON of create_feature_service lacks serviceItemId
\* or encodedServiceURL the call raises an error whose message holds the
\* response and returns no pair; it returns only when both keys are present,
\* and then admin_url is the returned URL with '/rest/' replaced by
\* '/rest/admin/'.
C4_ServiceRaisesOrDerivesAdminUrl ==
    ServiceCalled =>
        /\ (svc_resp.kind = "json"
               /\ (~HasKey(svc_resp.body, "serviceItemId")
                    \/ ~HasKey(svc_resp.body, "encodedServiceURL")))
            => /\ svc_ret = NoReturn
               /\ prov_pc = "raised"
               /\ prov_exc.type = "Exception"
               /\ prov_exc.embedded = svc_resp.body
        /\ svc_ret.returned
            => /\ svc_resp.kind = "json"
               /\ HasKey(svc_resp.body, "serviceItemId")
               /\ HasKey(svc_resp.body, "encodedServiceURL")
               /\ svc_ret.service_id = svc_resp.body["serviceItemId"]
               /\ svc_ret.admin_url
                    = Substituted(svc_resp.body["encodedServiceURL"], 1)

\* C4 witness: a response that carries a URL and an error but no
\* serviceItemId made the call raise.
C4_Witness ==
    /\ prov_pc = "raised"
    /\ svc_resp.kind = "json"
    /\ ~HasKey(svc_resp.body, "serviceItemId")
    /\ HasKey(svc_resp.body, "encodedServiceURL")
    /\ HasKey(svc_resp.body, "error")
    /\ prov_exc.type = "Exception"

\* The JSON values Python takes for false.
FalsyJson == {"false", "0", "null", "\"\"", "[]", "{}"}

\* C5: add_layer_to_service returns True exactly when the response JSON
\* carries a truthy 'success'; a JSON response whose flag is missing or falsy
\* makes it raise an error holding the response, and it returns nothing.
C5_LayerSuccessFlag ==
    LayerCalled =>
        LET flagged == /\ lyr_resp.kind = "json"
                       /\ HasKey(lyr_resp.body, "success")
                       /\ lyr_resp.body["success"][1] \notin FalsyJson
        IN  /\ lyr_ret.returned <=> flagged
            /\ lyr_ret.returned => lyr_ret.value = TRUE /\ prov_pc = "layer"
            /\ (lyr_resp.kind = "json" /\ ~flagged)
                => /\ lyr_ret = NoReturn
                   /\ prov_pc = "raised"
                   /\ prov_exc.type = "Exception"
                   /\ prov_exc.embedded = lyr_resp.body

\* C5 witness: a response carrying 'success': false made the call raise.
C5_Witness ==
    /\ LayerCalled
    /\ lyr_resp.kind = "json"
    /\ HasKey(lyr_resp.body, "success")
    /\ lyr_resp.body["success"] = <<"false">>
    /\ prov_pc = "raised"
    /\ prov_exc.type = "Exception"

---------------------------------------------------------------------------
(* Properties of the Feature Uploader *)

\* The rows among the first n whose attribute mapping cannot be built.
AttributeFailures(n) == {k \in 1..n : up_rows[k].attr = "arraylike"}

\* The rows among the first n whose coordinates float() refuses.
CoordinateFailures(n) == {k \in 1..n : up_rows[k].coord = "text"}

\* The rows among the first n whose feature cannot be built.
FeatureFailures(n) == AttributeFailures(n) \cup CoordinateFailures(n)

\* The row-skip records of the log.
RowSkips == SelectSeq(up_log, LAMBDA e : e.what = "Error processing row")

IsIncreasing(seq) == \A a, b \in 1..Len(seq) : a < b => seq[a] < seq[b]
IndexesOf(seq) == [j \in 1..Len(seq) |-> seq[j].index]

LoopOver == up_pc \in {"returned", "raised"}

\* C2 (as amended): of the rows gone through, the batch holds exactly those
\* whose feature could be built (attributes and float coordinates), in table
\* order; one row-skip error is logged for each of the others; the loop goes
\* through every row whatever failed before; and a request carries the batch.
C2_BatchIsBuildableRows ==
    /\ up_i \in 0..Len(up_rows)
    /\ Len(features) = up_i - Cardinality(FeatureFailures(up_i))
    /\ {features[j].index : j \in 1..Len(features)} = (1..up_i) \ FeatureFailures(up_i)
    /\ IsIncreasing(IndexesOf(features))
    /\ Len(RowSkips) = Cardinality(FeatureFailures(up_i))
    /\ {RowSkips[j].detail : j \in 1..Len(RowSkips)} = FeatureFailures(up_i)
    /\ LoopOver => up_i = Len(up_rows)
    /\ \A j \in 1..Len(up_posts) : up_posts[j] = features

\* C2 witness: a table whose first row failed and whose later rows went into
\* the batch that was posted.
C2_Witness ==
    /\ up_pc = "returned"
    /\ Len(up_rows) >= 2
    /\ 1 \in FeatureFailures(Len(up_rows))
    /\ Len(features) = Len(up_rows) - 1
    /\ Len(up_posts) = 1

\* C2 (as stated): with K the rows that fail attribute construction, the
\* batch holds N-K features and K row-skip errors are logged.
C2_Original ==
    LoopOver =>
        /\ Len(features) = Len(up_rows) - Cardinality(AttributeFailures(Len(up_rows)))
        /\ Len(RowSkips) = Cardinality(AttributeFailures(Len(up_rows)))

\* C3: an empty batch ends the call with an empty list and no request; a
\* request is issued only for a batch of at least one feature, and then once.
C3_EmptyBatchNoRequest ==
    /\ Len(up_posts) <= 1
    /\ up_posts # <<>> => features # <<>> /\ LoopOver
    /\ (LoopOver /\ features = <<>>)
        => /\ up_posts = <<>>
           /\ up_resp = NoResp
           /\ up_ret = [returned |-> TRUE, value |-> <<>>]

\* C3 witness: a table of rows that were all skipped ended with an empty
\* list and no request.
C3_Witness ==
    /\ up_pc = "returned"
    /\ Len(up_rows) >= 2
    /\ features = <<>>
    /\ up_posts = <<>>
    /\ up_ret.value = <<>>

\* C6: once the request is issued the call does not raise: a transport
\* failure or an error status ends it with an empty list, and a response
\* that carries addResults ends it with that list unchanged, whatever the
\* entries report.
C6_UploadNeverRaisesOnOutcome ==
    up_resp # NoResp =>
        /\ up_pc = "returned"
        /\ up_exc = NoExc
        /\ up_ret.returned
        /\ up_resp.kind \in {"ConnectionError", "HTTPError"} => up_ret.value = <<>>
        /\ (up_resp.kind = "json" /\ HasKey(up_resp.body, "addResults"))
            => up_ret.value = up_resp.body["addResults"]

\* C6 witness: a response whose entries all report failure was returned as
\* it came.
C6_Witness ==
    /\ up_pc = "returned"
    /\ up_resp # NoResp
    /\ up_resp.kind = "json"
    /\ HasKey(up_resp.body, "addResults")
    /\ up_resp.body["addResults"] = <<"failure", "failure">>
    /\ up_ret.value = <<"failure", "failure">>

---------------------------------------------------------------------------
(* Properties of the Auth Client and the Folder Resolver *)

\* The number of times a completed call posted to createFolder.
Creates(call) ==
    Cardinality({j \in 1..Len(call.posts) : call.posts[j] = "createFolder"})

\* The last two completed get_ago_folderID calls asked for the same title,
\* ran one after the other with no call beside them, and both returned.
TwoSuccessiveCalls ==
    /\ prev.kind = "folder" /\ last.kind = "folder"
    /\ prev.title = last.title
    /\ prev.serial /\ last.serial
    /\ prev.returned /\ last.returned

\* C1: two successive calls of get_ago_folderID with the same title return
\* the same folder id, and between them post to createFolder at most once:
\* only the first call may, and only when its listing held no folder of that
\* title.
C1_FolderResolverIdempotent ==
    TwoSuccessiveCalls =>
        /\ last.ret = prev.ret
        /\ Creates(prev) + Creates(last) <= 1
        /\ Creates(last) = 0
        /\ Creates(prev) = 1 => ~prev.had

\* C1 witness: the first of two successive calls created the folder and the
\* second returned the same id without creating.
C1_Witness ==
    /\ TwoSuccessiveCalls
    /\ Creates(prev) = 1
    /\ Creates(last) = 0
    /\ last.ret = prev.ret
    /\ last.ret # 0

\* The first request of a completed call that failed, 0 when none did.
FirstFailure(call) ==
    LET failed == {j \in 1..Len(call.outcomes) : call.outcomes[j] # "none"}
    IN  IF failed = {} THEN 0 ELSE CHOOSE j \in failed : \A k \in failed : j <= k

\* C7: a request of get_ago_token or get_ago_folderID that fails (transport
\* failure or error status) is logged as an error, the exception it raised is
\* the one the call raises, the call returns nothing, and the failed request
\* is the last one the call issues: no retry, and no createFolder after a
\* failed listing.
C7_RequestFailureIsFatal ==
    /\ (tok_last.kind = "token" /\ tok_last.outcome.exc # "none")
        => /\ ~tok_last.returned
           /\ tok_last.exc = tok_last.outcome.exc
           /\ tok_last.log.level = "error"
           /\ tok_last.log.e = tok_last.outcome.exc
           /\ tok_last.posts = <<"generateToken">>
    /\ (last.kind = "folder" /\ FirstFailure(last) # 0)
        => /\ ~last.returned
           /\ last.ret = 0
           /\ last.exc = last.outcomes[FirstFailure(last)]
           /\ last.log.level = "error"
           /\ last.log.e = last.exc
           /\ Len(last.posts) = FirstFailure(last)
    /\ \A p \in Callers : f_pc[p] = "create" => f_listing[p].exc = "none"

\* C7 witness: a token request failed on its status and, later, a folder
\* listing failed on the transport; both calls raised.
C7_Witness ==
    /\ tok_last.kind = "token"
    /\ tok_last.outcome.exc = "HTTPError"
    /\ tok_last.exc = "HTTPError"
    /\ last.kind = "folder"
    /\ last.outcomes = <<"ConnectionError">>
    /\ last.exc = "ConnectionError"
    /\ last.posts = <<"folders">>

NoDuplicateTitles ==
    \A i, j \in 1..Len(folders) :
        folders[i].title = folders[j].title => i = j

\* C10: as long as the get_ago_folderID calls for a title have run strictly
\* one after another, the account holds at most one folder per title; two
\* folders of one title exist only after two calls for it ran beside each
\* other.
C10_SerialCallsKeepTitlesUnique ==
    ~raced => NoDuplicateTitles

\* C10 witness: two calls for the same absent title both listed the folders
\* before either created, both posted to createFolder, and the account holds
\* two folders of that title.
C10_Witness ==
    /\ raced
    /\ ~NoDuplicateTitles
    /\ prev.kind = "folder" /\ last.kind = "folder"
    /\ prev.caller # last.caller
    /\ prev.title = last.title
    /\ ~prev.had /\ ~last.had
    /\ ~prev.serial /\ ~last.serial
    /\ Creates(prev) = 1 /\ Creates(last) = 1
    /\ prev.returned /\ last.returned /\ prev.ret # last.ret

---------------------------------------------------------------------------
(* Specifications *)

InitCleanName == CleanNameInit /\ SanitizeParked /\ ProvisionParked /\ UploadParked /\ AccountParked
NextCleanName == CleanName
SpecCleanName == InitCleanName /\ [][NextCleanName]_vars

InitSanitize == SanitizeInit /\ CleanNameParked /\ ProvisionParked /\ UploadParked /\ AccountParked
NextSanitize == PrepareDfForAgo
SpecSanitize == InitSanitize /\ [][NextSanitize]_vars

InitProvision == ProvisionInit /\ CleanNameParked /\ SanitizeParked /\ UploadParked /\ AccountParked
NextProvision == CreateFeatureService \/ AddLayerToService
SpecProvision == InitProvision /\ [][NextProvision]_vars

InitUpload == UploadInit /\ CleanNameParked /\ SanitizeParked /\ ProvisionParked /\ AccountParked
NextUpload == ProcessRow \/ SubmitBatch
SpecUpload == InitUpload /\ [][NextUpload]_vars

InitAccount ==
    AccountInit /\ CleanNameParked /\ SanitizeParked /\ ProvisionParked /\ UploadParked
NextAccount ==
    \E p \in Callers : GetAgoToken(p) \/ ListFolders(p) \/ CreateFolder(p)
SpecAccount == InitAccount /\ [][NextAccount]_vars

===========================================================================
